---- MODULE Spec2Model ----
(***************************************************************************)
(* Model of jules-scratch/verification/verify_all_fixes.py: the function   *)
(* run(playwright) and the module-level `with sync_playwright()` block.    *)
(* The script is a straight line of Playwright calls inside one            *)
(* try / except Exception / finally.  The page under test is the           *)
(* environment: it is drawn in Init from a small family of pages.          *)
(***************************************************************************)
EXTENDS Integers, Sequences, FiniteSets, TLC

\* Largest number of class tokens an element of the page carries besides the
\* token its toggle adds ("dark" on <html>, "active" on the accordion button).
MaxStatic == 1

\* range(5) of the rapid-interaction loop.
RapidClicks == 5

VARIABLES
    pc,        \* position of the control flow of run / of the process
    ip,        \* index in Script of the next statement of the try body
    raising,   \* TRUE while an exception is propagating out of run
    browser,   \* "none" | "open" | "closed"
    cfg,       \* the page served at BASE_URL (fixed during a run)
    dark,      \* <html> currently carries the token "dark"
    stored,    \* theme kept in the context's localStorage: "unset"|"dark"|"light"
    open,      \* the accordion button currently carries the token "active"
    focus,     \* element holding the keyboard focus
    filled,    \* input fields that have been filled
    acts,      \* number of toggle activations delivered to the page so far
    lastAct,   \* last activation of the accordion button: its kind and the state it started from
    out,       \* lines printed to stdout (labels)
    files,     \* screenshot paths written, in order
    trace,     \* indexes of the statements of the try body that were started
    checks,    \* accordion assertions that passed, with the activation they followed
    failedAt,  \* index of the statement of the try body that raised, 0 if none
    errKind,   \* "none" | "assert" (an expect failed) | "env" (any other raise)
    exitCode   \* exit status of the process, -1 while it runs

vars == <<pc, ip, raising, browser, cfg, dark, stored, open, focus, filled, acts,
          lastAct, out, files, trace, checks, failedAt, errKind, exitCode>>

pageVars == <<dark, stored, open, focus, filled, acts, lastAct>>

----------------------------------------------------------------------------
(* The statements of the try body, lines 19-125, in declaration order.     *)
(* Locator constructions (page.locator) are lazy and have no effect.       *)

S(line, op, target, matcher, value) ==
    [line |-> line, op |-> op, target |-> target, matcher |-> matcher, value |-> value]

P(line, label) == S(line, "print", "stdout", "none", label)
W(line)        == S(line, "wait", "page", "none", "none")
Shot(line, nm) == S(line, "screenshot", "page", "none", nm)

ThemeSection ==
    << S(19, "goto", "page", "none", "/?notest=true"),
       P(20, "started"),
       P(23, "1.1"),
       S(28, "expect", "html", "not_to_have_class", "dark"),
       S(29, "expect", "sun", "to_be_visible", "none"),
       Shot(30, "01_light_mode_initial.png"),
       P(31, "light-ok"),
       S(34, "click", "theme", "none", "none"),
       W(35),
       S(36, "expect", "html", "to_have_class", "dark"),
       S(37, "expect", "moon", "to_be_visible", "none"),
       Shot(38, "02_dark_mode_toggled.png"),
       P(39, "dark-ok"),
       P(42, "1.2"),
       S(43, "reload", "page", "none", "none"),
       W(44),
       S(45, "expect", "html", "to_have_class", "dark"),
       S(46, "expect", "moon", "to_be_visible", "none"),
       Shot(47, "03_dark_mode_reloaded.png"),
       P(48, "dark-persists"),
       S(51, "click", "theme", "none", "none"),
       W(52),
       S(53, "reload", "page", "none", "none"),
       W(54),
       S(55, "expect", "html", "not_to_have_class", "dark"),
       P(56, "light-persists") >>

AccordionSection ==
    << P(59, "2.1"),
       S(62, "click", "tab", "none", "none"),
       W(63),
       S(69, "expect", "btn", "not_to_have_class", "active"),
       S(72, "click", "btn", "none", "none"),
       W(73),
       S(74, "expect", "btn", "to_have_class_re", "active"),
       Shot(75, "04_accordion_open.png"),
       P(76, "opens"),
       S(79, "click", "btn", "none", "none"),
       W(80),
       S(81, "expect", "btn", "not_to_have_class", "active"),
       P(82, "closes"),
       P(85, "2.2") >>

\* for _ in range(5): click(); time.sleep(0.05)   (the sleep cannot raise
\* and touches nothing, so each iteration is its click)
RapidSection == [i \in 1..RapidClicks |-> S(87, "click", "btn", "none", "none")]

KeyboardSection ==
    << W(89),
       S(91, "expect", "btn", "to_have_class_re", "active"),
       P(92, "stable"),
       S(93, "click", "btn", "none", "none"),
       W(94),
       P(97, "2.3"),
       S(98, "focus", "btn", "none", "none"),
       S(99, "press", "keyboard", "none", "Enter"),
       W(100),
       S(101, "expect", "btn", "to_have_class_re", "active"),
       Shot(102, "05_accordion_kbd_open.png"),
       P(103, "kbd-opens"),
       S(105, "press", "keyboard", "none", "Enter"),
       W(106),
       S(107, "expect", "btn", "not_to_have_class", "active"),
       P(108, "kbd-closes") >>

ChartSection ==
    << P(111, "3.1"),
       S(113, "fill", "salario-bruto", "none", "5000"),
       S(114, "fill", "desconto-saude", "none", "100"),
       W(115),
       S(118, "expect", "chart_svg", "to_be_visible", "none"),
       S(119, "expect", "segments", "to_have_count", 3),
       Shot(120, "06_svg_chart_restored.png"),
       P(121, "chart-ok"),
       P(123, "3.2-skipped"),
       P(125, "success") >>

\* The scenario without the assertion that follows the first reload (line 45).
ScriptNoRecheck ==
    LET base == ThemeSection \o AccordionSection \o RapidSection \o KeyboardSection \o ChartSection
    IN  [i \in DOMAIN base |-> IF base[i].line = 45 THEN W(45) ELSE base[i]]

Script ==
    ThemeSection \o AccordionSection \o RapidSection \o KeyboardSection \o ChartSection

NSteps == Len(Script)

ErrorShot == "error.png"

----------------------------------------------------------------------------
(* The page under test (the calculator application served at BASE_URL).    *)

IsActivation(s) ==
    \/ s.op = "click" /\ s.target \in {"theme", "btn"}
    \/ s.op = "press"

\* Number of toggle activations the script delivers.
NumActivations == Cardinality({i \in 1..NSteps : IsActivation(Script[i])})

\* A page has at most one defective activation: the at-th one is dropped
\* (no flip) or doubled (two flips).
Faults ==
    {[kind |-> "none", at |-> 0]} \cup
    {[kind |-> k, at |-> n] : k \in {"drop", "double"}, n \in 1..NumActivations}

Pages ==
    [htmlStatic : 0..MaxStatic,   \* class tokens of <html> besides "dark"
     btnStatic  : 0..MaxStatic,   \* class tokens of the button besides "active"
     fault      : Faults,
     chartSegs  : {2, 3},         \* .chart-segment elements the chart renders
     persists   : BOOLEAN,        \* the theme is restored from localStorage on load
     initDark   : BOOLEAN]        \* theme of a first visit

RECURSIVE StaticTokens(_)
StaticTokens(n) == IF n = 0 THEN <<>> ELSE Append(StaticTokens(n - 1), "x")

\* The class attribute of an element, as its list of tokens.
ClassAttr(t) ==
    IF t = "html"
    THEN StaticTokens(cfg.htmlStatic) \o (IF dark THEN <<"dark">> ELSE <<>>)
    ELSE StaticTokens(cfg.btnStatic) \o (IF open THEN <<"active">> ELSE <<>>)

Inputs == {"salario-bruto", "desconto-saude"}

Visible(t) ==
    CASE t = "sun"       -> ~dark
      [] t = "moon"      -> dark
      [] t = "chart_svg" -> filled = Inputs
      [] OTHER           -> TRUE

Count(t) == IF filled = Inputs THEN cfg.chartSegs ELSE 0

Flips(n) ==
    IF cfg.fault.at = n
    THEN (IF cfg.fault.kind = "drop" THEN 0 ELSE 2)
    ELSE 1

Toggle(b, n) == IF Flips(n) % 2 = 1 THEN ~b ELSE b

LoadedDark ==
    IF cfg.persists /\ stored # "unset" THEN stored = "dark" ELSE cfg.initDark

NoAct == [kind |-> "none", pre |-> FALSE]

\* One activation (pointer or keyboard) of the theme switch or of the button.
Activate(t, kind) ==
    LET n == acts + 1 IN
    /\ acts' = n
    /\ focus' = t
    /\ filled' = filled
    /\ IF t = "theme"
       THEN /\ dark' = Toggle(dark, n)
            /\ stored' = IF Flips(n) = 0 THEN stored
                         ELSE IF Toggle(dark, n) THEN "dark" ELSE "light"
            /\ UNCHANGED <<open, lastAct>>
       ELSE /\ open' = Toggle(open, n)
            /\ lastAct' = [kind |-> kind, pre |-> open]
            /\ UNCHANGED <<dark, stored>>

\* A full page load: goto and reload.
Load ==
    /\ dark' = LoadedDark
    /\ open' = FALSE
    /\ focus' = "none"
    /\ filled' = {}
    /\ lastAct' = NoAct
    /\ UNCHANGED <<stored, acts>>

----------------------------------------------------------------------------
(* Playwright's assertions.  to_have_class with a string compares the      *)
(* whole class attribute with the string; with a compiled regular          *)
(* expression it searches the attribute for a match.                       *)

Holds(s) ==
    CASE s.matcher = "to_have_class"     -> ClassAttr(s.target) = <<s.value>>
      [] s.matcher = "not_to_have_class" -> ClassAttr(s.target) # <<s.value>>
      [] s.matcher = "to_have_class_re"  ->
            \E i \in 1..Len(ClassAttr(s.target)) : ClassAttr(s.target)[i] = s.value
      [] s.matcher = "to_be_visible"     -> Visible(s.target)
      [] s.matcher = "to_have_count"     -> Count(s.target) = s.value
      [] OTHER                           -> TRUE

----------------------------------------------------------------------------
(* Control flow of run.                                                    *)

Init ==
    /\ pc = "launch"
    /\ ip = 1
    /\ raising = FALSE
    /\ browser = "none"
    /\ cfg \in Pages
    /\ dark = FALSE
    /\ stored = "unset"
    /\ open = FALSE
    /\ focus = "none"
    /\ filled = {}
    /\ acts = 0
    /\ lastAct = NoAct
    /\ out = <<>>
    /\ files = <<>>
    /\ trace = <<>>
    /\ checks = <<>>
    /\ failedAt = 0
    /\ errKind = "none"
    /\ exitCode = -1

\* A statement before the try block: an exception leaves run at once.
Setup(here, next) ==
    /\ pc = here
    /\ \E ok \in BOOLEAN :
         IF ok
         THEN /\ pc' = next
              /\ browser' = IF here = "launch" THEN "open" ELSE browser
              /\ UNCHANGED raising
         ELSE /\ pc' = "run_end"
              /\ raising' = TRUE
              /\ UNCHANGED browser
    /\ UNCHANGED <<ip, cfg, out, files, trace, checks, failedAt, errKind, exitCode>>
    /\ UNCHANGED pageVars

\* line 6
Launch == Setup("launch", "new_context")
\* line 7
NewContext == Setup("new_context", "new_page")
\* line 8
NewPage == Setup("new_page", "on_console")
\* line 11
OnConsole == Setup("on_console", "try")

AtStep(op) == pc = "try" /\ ip \in 1..NSteps /\ Script[ip].op = op

\* A runner that loses the statement following an assertion.
NextIpSkip(k) == IF Script[k].op = "expect" THEN k + 2 ELSE k + 1

\* Sequential composition: the statement after statement k.
NextIp(k) == k + 1

\* The statement completed: control falls to the next one, and after the
\* last one to the finally clause.
Ok ==
    /\ ip' = NextIp(ip)
    /\ pc' = IF NextIp(ip) > NSteps THEN "finally" ELSE "try"
    /\ trace' = Append(trace, ip)
    /\ UNCHANGED <<failedAt, errKind>>

\* A runner that swallows the exception and goes on with the next statement.
HandlerSwallow(k) == [pc |-> IF k + 1 > NSteps THEN "finally" ELSE "try", ip |-> k + 1]

\* except Exception as e: where control goes when statement k raises.
Handler(k) == [pc |-> "except", ip |-> k]

Raise(kind) ==
    /\ pc' = Handler(ip).pc
    /\ ip' = Handler(ip).ip
    /\ trace' = Append(trace, ip)
    /\ failedAt' = ip
    /\ errKind' = kind

Goto ==
    /\ AtStep("goto")
    /\ Ok
    /\ Load
    /\ UNCHANGED <<raising, browser, cfg, out, files, checks, exitCode>>

Reload ==
    /\ AtStep("reload")
    /\ Ok
    /\ Load
    /\ UNCHANGED <<raising, browser, cfg, out, files, checks, exitCode>>

PrintLine ==
    /\ AtStep("print")
    /\ Ok
    /\ out' = Append(out, Script[ip].value)
    /\ UNCHANGED <<raising, browser, cfg, files, checks, exitCode>>
    /\ UNCHANGED pageVars

Wait ==
    /\ AtStep("wait")
    /\ Ok
    /\ UNCHANGED <<raising, browser, cfg, out, files, checks, exitCode>>
    /\ UNCHANGED pageVars

Click ==
    /\ AtStep("click")
    /\ Ok
    /\ IF Script[ip].target \in {"theme", "btn"}
       THEN Activate(Script[ip].target, "click")
       ELSE /\ focus' = Script[ip].target
            /\ UNCHANGED <<dark, stored, open, filled, acts, lastAct>>
    /\ UNCHANGED <<raising, browser, cfg, out, files, checks, exitCode>>

Focus ==
    /\ AtStep("focus")
    /\ Ok
    /\ focus' = Script[ip].target
    /\ UNCHANGED <<dark, stored, open, filled, acts, lastAct>>
    /\ UNCHANGED <<raising, browser, cfg, out, files, checks, exitCode>>

\* page.keyboard.press("Enter") goes to the focused element.
Press ==
    /\ AtStep("press")
    /\ Ok
    /\ IF focus \in {"theme", "btn"}
       THEN Activate(focus, "key")
       ELSE UNCHANGED pageVars
    /\ UNCHANGED <<raising, browser, cfg, out, files, checks, exitCode>>

Fill ==
    /\ AtStep("fill")
    /\ Ok
    /\ filled' = filled \cup {Script[ip].target}
    /\ UNCHANGED <<dark, stored, open, focus, acts, lastAct>>
    /\ UNCHANGED <<raising, browser, cfg, out, files, checks, exitCode>>

Screenshot ==
    /\ AtStep("screenshot")
    /\ Ok
    /\ files' = Append(files, Script[ip].value)
    /\ UNCHANGED <<raising, browser, cfg, out, checks, exitCode>>
    /\ UNCHANGED pageVars

\* expect(...): passes when the condition holds, raises AssertionError otherwise.
Expect ==
    /\ AtStep("expect")
    /\ IF Holds(Script[ip])
       THEN /\ Ok
            /\ checks' = IF Script[ip].target = "btn" /\ lastAct.kind # "none"
                         THEN Append(checks, [line    |-> Script[ip].line,
                                              kind    |-> lastAct.kind,
                                              pre     |-> lastAct.pre,
                                              matcher |-> Script[ip].matcher,
                                              post    |-> open])
                         ELSE checks
       ELSE /\ Raise("assert")
            /\ UNCHANGED checks
    /\ UNCHANGED <<raising, browser, cfg, out, files, exitCode>>
    /\ UNCHANGED pageVars

\* Any Playwright call of the try body can raise (time-out, navigation
\* error, crashed page, closed target); print and locator() cannot.
StepRaises ==
    /\ pc = "try"
    /\ ip \in 1..NSteps
    /\ Script[ip].op # "print"
    /\ Raise("env")
    /\ UNCHANGED <<raising, browser, cfg, out, files, checks, exitCode>>
    /\ UNCHANGED pageVars

\* line 128
ExceptPrint ==
    /\ pc = "except"
    /\ pc' = "except_shot"
    /\ out' = Append(out, "error")
    /\ UNCHANGED <<ip, raising, browser, cfg, files, trace, checks, failedAt, errKind, exitCode>>
    /\ UNCHANGED pageVars

\* line 129: a raise inside the handler propagates, after the finally clause.
ExceptScreenshot ==
    /\ pc = "except_shot"
    /\ pc' = "finally"
    /\ \E ok \in BOOLEAN :
         IF ok
         THEN files' = Append(files, ErrorShot) /\ UNCHANGED raising
         ELSE raising' = TRUE /\ UNCHANGED files
    /\ UNCHANGED <<ip, browser, cfg, out, trace, checks, failedAt, errKind, exitCode>>
    /\ UNCHANGED pageVars

\* lines 131-132: a raise of browser.close() propagates out of run.
Finally ==
    /\ pc = "finally"
    /\ pc' = "run_end"
    /\ \E ok \in BOOLEAN :
         IF ok
         THEN browser' = "closed" /\ UNCHANGED raising
         ELSE raising' = TRUE /\ UNCHANGED browser
    /\ UNCHANGED <<ip, cfg, out, files, trace, checks, failedAt, errKind, exitCode>>
    /\ UNCHANGED pageVars

\* lines 134-135: run has returned or raised; the with block re-raises what
\* run raised and the interpreter exits with status 1 on an uncaught
\* exception, with status 0 otherwise.
ProcessExit ==
    /\ pc = "run_end"
    /\ pc' = "exited"
    /\ exitCode' = IF raising THEN 1 ELSE 0
    /\ UNCHANGED <<ip, raising, browser, cfg, out, files, trace, checks, failedAt, errKind>>
    /\ UNCHANGED pageVars

Next ==
    \/ Launch \/ NewContext \/ NewPage \/ OnConsole
    \/ Goto \/ Reload \/ PrintLine \/ Wait \/ Click \/ Focus \/ Press \/ Fill
    \/ Screenshot \/ Expect \/ StepRaises
    \/ ExceptPrint \/ ExceptScreenshot \/ Finally \/ ProcessExit

Spec == Init /\ [][Next]_vars

----------------------------------------------------------------------------

TypeOK ==
    /\ pc \in {"launch", "new_context", "new_page", "on_console", "try",
               "except", "except_shot", "finally", "run_end", "exited"}
    /\ ip \in 1..(NSteps + 1)
    /\ browser \in {"none", "open", "closed"}
    /\ exitCode \in {-1, 0, 1}

----------------------------------------------------------------------------
(* Vocabulary of the properties.                                           *)

Terminated == pc = "exited"

\* run has left (returned or raised); the process has not exited yet or has.
RunLeft == pc \in {"run_end", "exited"}

\* Every statement of the try body ran and none raised.
AllPassed == failedAt = 0 /\ ip = NSteps + 1

StepFailed == failedAt # 0

CountIn(seq, x) == Cardinality({i \in DOMAIN seq : seq[i] = x})

\* Statement k was started and did not raise.
Passed(k) == k # failedAt /\ \E i \in DOMAIN trace : trace[i] = k

IsScreenshot(s) == s.op = "screenshot"

\* The numbered screenshots in declaration order.
Numbered ==
    LET shots == SelectSeq(Script, IsScreenshot)
    IN  [i \in DOMAIN shots |-> shots[i].value]

IsNumbered(f) == f # ErrorShot

\* The page is ideal in everything but, possibly, one toggle activation.
IdealBesidesToggles == cfg.chartSegs = 3 /\ cfg.persists /\ ~cfg.initDark

----------------------------------------------------------------------------
\* C1: when the process has exited, a run in which every step passed has
\* exit status 0 and a run in which some step of the try body failed has a
\* non-zero exit status.
C1_ExitStatusDistinguishesVerdict ==
    Terminated =>
        /\ AllPassed => exitCode = 0
        /\ StepFailed => exitCode # 0

\* C2: fail-fast.  No statement started in a run has an index above the
\* failing one, and once a statement has failed no statement is started, the
\* page is not touched and no numbered screenshot is written: the only
\* things that follow are the error line, the error screenshot, the browser
\* close and the exit.
C2_FailFast ==
    [][ /\ failedAt' # 0 =>
              \A i \in DOMAIN trace' : trace'[i] <= failedAt'
        /\ failedAt # 0 =>
              /\ failedAt' = failedAt
              /\ trace' = trace
              /\ ip' = ip
              /\ pageVars' = pageVars
              /\ files' = files \/ files' = Append(files, ErrorShot)
              /\ out' = out \/ out' = Append(out, "error")
              /\ pc' \in {"except_shot", "finally", "run_end", "exited"} ]_vars

\* An assertion in the middle of the scenario failed and the run went
\* through the handler and the finally clause to the end.
C2_Witness ==
    /\ Terminated
    /\ errKind = "assert"
    /\ failedAt \in 2..(NSteps - 1)
    /\ Len(trace) = failedAt
    /\ out[Len(out)] = "error"
    /\ browser = "closed"

\* C3: once the browser has been launched, run is never left with the
\* browser still open.
C3_BrowserClosedOnEveryExit == RunLeft => browser # "open"

\* C4: a terminated run in which a step failed has written the error
\* screenshot exactly once.
C4_ExactlyOneErrorArtifact ==
    (Terminated /\ StepFailed) => CountIn(files, ErrorShot) = 1

\* C5: no exception propagates out of run.
C5_NoFailureEscapes == ~(RunLeft /\ raising)

\* C6: a terminated run has printed the success line iff every step passed,
\* the error line iff some step failed, each at most once, and exactly one
\* of the two.
C6_VerdictOnceAndMatches ==
    Terminated =>
        /\ CountIn(out, "success") = (IF AllPassed THEN 1 ELSE 0)
        /\ CountIn(out, "error") = (IF StepFailed THEN 1 ELSE 0)
        /\ CountIn(out, "success") + CountIn(out, "error") = 1

\* C7: toggle parity.  On a page that is ideal but for at most one toggle
\* activation, and with no failure other than a failed assertion, the
\* scenario passes exactly when no activation was dropped or doubled; and on
\* the page without defect the accordion is closed again when the keyboard
\* test begins.
C7_ToggleParity ==
    /\ (Terminated /\ trace # <<>> /\ errKind # "env" /\ IdealBesidesToggles) =>
            (AllPassed <=> cfg.fault.kind = "none")
    /\ (pc = "try" /\ ip <= NSteps /\ cfg.fault.kind = "none") =>
            (Script[ip].op = "focus" => ~open)

\* C8 as stated: every reload of the scenario is preceded, since the theme
\* click before it, by an assertion on the class of <html>, and the next
\* such assertion after the reload is the same one.
IsHtmlAssert(k) == Script[k].op = "expect" /\ Script[k].target = "html"

IsThemeClick(k) == Script[k].op = "click" /\ Script[k].target = "theme"

IsReload(k) == Script[k].op = "reload"

\* Positions of trace holding a theme click before position i.
ClicksBefore(i) == {j \in 1..(i - 1) : IsThemeClick(trace[j])}

LastClick(i) ==
    IF ClicksBefore(i) = {} THEN 0
    ELSE CHOOSE j \in ClicksBefore(i) : \A h \in ClicksBefore(i) : h <= j

\* Positions of the assertions on <html> that passed between the last theme
\* click before the reload at position i and that reload.
AssertsBefore(i) ==
    {j \in (LastClick(i) + 1)..(i - 1) : IsHtmlAssert(trace[j]) /\ Passed(trace[j])}

\* Positions of the assertions on <html> that passed after the reload at
\* position i and before any further theme click.
AssertsAfter(i) ==
    {j \in (i + 1)..Len(trace) :
        /\ IsHtmlAssert(trace[j])
        /\ Passed(trace[j])
        /\ LastClick(j) = LastClick(i)}

SameAssert(a, b) ==
    Script[a].matcher = Script[b].matcher /\ Script[a].value = Script[b].value

ReloadsDone == {i \in DOMAIN trace : IsReload(trace[i]) /\ Passed(trace[i])}

C8_AssertReloadAssert ==
    \A i \in ReloadsDone :
        /\ AssertsBefore(i) # {}
        /\ \A a \in AssertsBefore(i), b \in AssertsAfter(i) :
                SameAssert(trace[a], trace[b])

\* C8 amended: the reload after the toggle to dark is preceded by the
\* assertion that <html> has class "dark" and, by the time persistence is
\* reported, followed by the same assertion; the reload after the toggle
\* back to light is preceded by no assertion at all and, by the time
\* persistence is reported, followed by the assertion that <html> has not
\* class "dark".
C8_PersistenceAsCoded ==
    \A i \in ReloadsDone :
        /\ Cardinality(ClicksBefore(i)) \in {1, 2}
        /\ Cardinality(ClicksBefore(i)) = 1 =>
              /\ AssertsBefore(i) # {}
              /\ \A a \in AssertsBefore(i) :
                    Script[trace[a]].matcher = "to_have_class" /\ Script[trace[a]].value = "dark"
              /\ \A a \in AssertsBefore(i), b \in AssertsAfter(i) :
                    SameAssert(trace[a], trace[b])
              /\ CountIn(out, "dark-persists") > 0 => AssertsAfter(i) # {}
        /\ Cardinality(ClicksBefore(i)) = 2 =>
              /\ AssertsBefore(i) = {}
              /\ \A b \in AssertsAfter(i) :
                    Script[trace[b]].matcher = "not_to_have_class" /\ Script[trace[b]].value = "dark"
              /\ CountIn(out, "light-persists") > 0 => AssertsAfter(i) # {}

\* Both reloads were done and both persistence lines were printed.
C8_Witness ==
    /\ Cardinality(ReloadsDone) = 2
    /\ CountIn(out, "dark-persists") = 1
    /\ CountIn(out, "light-persists") = 1

\* C9: every accordion assertion that passed after an activation saw the
\* state the activation must yield (open from closed, closed from open); the
\* assertion made after an activation depends on the starting state only,
\* not on the kind of activation; and on the page without defect the click
\* test and the keyboard test both start from closed.
C9_KeyboardEquivalence ==
    /\ \A i \in DOMAIN checks : checks[i].post = ~checks[i].pre
    /\ \A i, j \in DOMAIN checks :
            checks[i].pre = checks[j].pre => checks[i].matcher = checks[j].matcher
    /\ cfg.fault.kind = "none" =>
            \A i \in DOMAIN checks : checks[i].line \in {74, 101} => ~checks[i].pre

\* C10: the statements started are 1, 2, ... in declaration order; the
\* numbered screenshots written are a prefix of the declared ones; no path
\* is written twice; a numbered screenshot is on disk only if every
\* assertion declared before it passed; the error screenshot has a name of
\* its own.
C10_OrderedWriteOnce ==
    LET num == SelectSeq(files, IsNumbered) IN
    /\ \A i \in DOMAIN trace : trace[i] = i
    /\ Len(num) <= Len(Numbered)
    /\ \A i \in DOMAIN num : num[i] = Numbered[i]
    /\ \A i, j \in DOMAIN files : files[i] = files[j] => i = j
    /\ \A i, j \in DOMAIN Numbered : Numbered[i] = Numbered[j] => i = j
    /\ \A i \in DOMAIN Numbered : Numbered[i] # ErrorShot
    /\ \A k \in 1..NSteps :
          (IsScreenshot(Script[k]) /\ CountIn(files, Script[k].value) > 0) =>
              \A j \in 1..(k - 1) : Script[j].op = "expect" => Passed(j)

\* A run that wrote four numbered screenshots, then failed and wrote the
\* error screenshot.
C10_Witness ==
    /\ Terminated
    /\ StepFailed
    /\ Len(files) = 5
    /\ files[5] = ErrorShot
    /\ files[4] = Numbered[4]

====
